---- MODULE Spec2Model ----
(***************************************************************************)
(* handleSuccessfulPayment (backend/src/services/stripe.service.ts, as     *)
(* written by temp_patch.py): the reconciliation of an order with the      *)
(* payment provider's checkout session.  Every invocation is an async      *)
(* function: it runs atomically between two awaits, and the invocations    *)
(* of different webhook deliveries interleave at the awaits.               *)
(***************************************************************************)
EXTENDS Integers, Sequences, FiniteSets

(***************************************************************************)
(* Bounds of the model.                                                    *)
(***************************************************************************)
\* invocations of handleSuccessfulPayment in one behaviour
NumCalls == 2
\* amounts and order totals range over 0..MaxCents (minor units), besides
\* the amounts of the documented examples
MaxCents == 5

(***************************************************************************)
(* IEEE-754 binary64 arithmetic, as JavaScript numbers compute it.  A      *)
(* number is [m, e]: m the 53 significand bits, most significant first     *)
(* and starting with 1, e the exponent of the last bit; its value is       *)
(* m * 2^e.  Zero is the empty significand.  Every operation returns the   *)
(* exact result rounded to nearest, ties to even.                          *)
(***************************************************************************)
MantissaBits == 53
\* quotient bits produced by one step of the long division
ChunkBits == 8

Zeros(k) == [i \in 1..k |-> 0]

\* b without its leading zeros
StripZeros(b) ==
    IF \A i \in 1..Len(b) : b[i] = 0 THEN <<>>
    ELSE SubSeq(b, CHOOSE i \in 1..Len(b) : b[i] = 1 /\ \A j \in 1..(i - 1) : b[j] = 0, Len(b))

\* the low `width` bits of the natural n
FixedBits(n, width) == [i \in 1..width |-> (n \div 2^(width - i)) % 2]

\* the bits of the natural n < 2^31
NatBits(n) == StripZeros(FixedBits(n, 31))

\* b + 1 on a bit string of fixed length (all zeros on overflow)
IncBits(b) ==
    IF \A i \in 1..Len(b) : b[i] = 1 THEN Zeros(Len(b))
    ELSE LET k == CHOOSE i \in 1..Len(b) : b[i] = 0 /\ \A j \in (i + 1)..Len(b) : b[j] = 1
         IN  [i \in 1..Len(b) |-> IF i < k THEN b[i] ELSE IF i = k THEN 1 ELSE 0]

\* m at exponent e, rounded by what was cut off: up when it is more than
\* half a unit of the last place, tie when it is exactly half
RoundNearestEven(m, e, up, tie) ==
    IF up \/ (tie /\ m[Len(m)] = 1)
    THEN LET i == IncBits(m)
         IN  IF i[1] = 0 THEN [m |-> <<1>> \o Zeros(Len(m) - 1), e |-> e + 1]
             ELSE [m |-> i, e |-> e]
    ELSE [m |-> m, e |-> e]

FZero == [m |-> <<>>, e |-> 0]

\* the number nearest to (bits + f) * 2^e, where 0 <= f < 1 and sticky
\* tells whether f > 0
RoundBits(bits, e, sticky) ==
    LET s == StripZeros(bits)
        n == Len(s)
    IN  IF n = 0 THEN FZero
        ELSE IF n <= MantissaBits
        THEN [m |-> s \o Zeros(MantissaBits - n), e |-> e - (MantissaBits - n)]
        ELSE LET rest == SubSeq(s, MantissaBits + 1, n)
                 restNonZero == sticky \/ \E i \in 2..Len(rest) : rest[i] = 1
             IN  RoundNearestEven(SubSeq(s, 1, MantissaBits), e + (n - MantissaBits),
                                  rest[1] = 1 /\ restNonZero, rest[1] = 1 /\ ~restNonZero)

\* long division: ChunkBits quotient bits a step, until the quotient has
\* more bits than the significand; r is the remainder so far
RECURSIVE DivSteps(_, _, _, _)
DivSteps(bits, r, d, e) ==
    IF Len(bits) > MantissaBits
    THEN RoundBits(bits, e, r # 0)
    ELSE DivSteps(StripZeros(bits \o FixedBits((r * 2^ChunkBits) \div d, ChunkBits)),
                  (r * 2^ChunkBits) % d, d, e - ChunkBits)

\* the number nearest to n / d, for naturals n and d > 0
FDiv(n, d) ==
    IF n = 0 THEN FZero
    ELSE IF n % d = 0 THEN RoundBits(NatBits(n \div d), 0, FALSE)
    ELSE DivSteps(NatBits(n \div d), n % d, d, 0)

\* x >= y on bit strings of one length
BitsGeq(x, y) ==
    \/ x = y
    \/ \E i \in 1..Len(x) : x[i] > y[i] /\ \A j \in 1..(i - 1) : x[j] = y[j]

\* x - y on bit strings of one length, x >= y
SubBits(x, y) ==
    LET n == Len(x)
        \* what the positions right of i borrow from position i
        borrow(i) == IF \E k \in (i + 1)..n :
                            x[k] < y[k] /\ \A j \in (i + 1)..(k - 1) : x[j] = y[j]
                     THEN 1 ELSE 0
    IN  [i \in 1..n |-> (x[i] - y[i] - borrow(i) + 2) % 2]

\* the number nearest to bits * 2^e
Normalize(bits, e) == RoundBits(bits, e, FALSE)

\* Math.abs(x - y)
FAbsSub(x, y) ==
    IF x.m = <<>> THEN y
    ELSE IF y.m = <<>> THEN x
    ELSE LET e  == IF x.e < y.e THEN x.e ELSE y.e
             xs == x.m \o Zeros(x.e - e)
             ys == y.m \o Zeros(y.e - e)
             n  == IF Len(xs) > Len(ys) THEN Len(xs) ELSE Len(ys)
             xp == Zeros(n - Len(xs)) \o xs
             yp == Zeros(n - Len(ys)) \o ys
         IN  IF BitsGeq(xp, yp) THEN Normalize(SubBits(xp, yp), e)
             ELSE Normalize(SubBits(yp, xp), e)

\* x > y
FGreater(x, y) ==
    IF x.m = <<>> THEN FALSE
    ELSE IF y.m = <<>> THEN TRUE
    ELSE IF x.e # y.e THEN x.e > y.e
    ELSE x.m # y.m /\ BitsGeq(x.m, y.m)

(***************************************************************************)
(* Values.  null and undefined are Null for identifiers; a string is a     *)
(* sequence of characters where the code looks into it (the currency),     *)
(* and the empty sequence is the absent or empty currency, which           *)
(* `session.currency || ...` does not tell apart.                          *)
(***************************************************************************)
Null == "null"
AmountAbsent == -1
Unset == 0

OrderIds == {"o1", "o2"}
UnknownOrderId == "o9"
UserIds == {"u1", "u2"}

Usd == <<"u", "s", "d">>
Card == "card"

UpperCase == <<"A", "B", "C", "D", "E", "F", "G", "H", "I", "J", "K", "L", "M",
               "N", "O", "P", "Q", "R", "S", "T", "U", "V", "W", "X", "Y", "Z">>
LowerCase == <<"a", "b", "c", "d", "e", "f", "g", "h", "i", "j", "k", "l", "m",
               "n", "o", "p", "q", "r", "s", "t", "u", "v", "w", "x", "y", "z">>

\* String.prototype.toLowerCase
ToLowerCase(str) ==
    [i \in 1..Len(str) |->
        IF \E k \in 1..Len(UpperCase) : UpperCase[k] = str[i]
        THEN LowerCase[CHOOSE k \in 1..Len(UpperCase) : UpperCase[k] = str[i]]
        ELSE str[i]]

\* a JavaScript value counted as true in a condition: an identifier that
\* is neither null, undefined nor the empty string
Truthy(v) == v # Null /\ v # ""

(***************************************************************************)
(* The order store (prisma.order, with its payment relation).              *)
(***************************************************************************)
OrderSeed ==
    [id \in OrderIds |->
        [id |-> id,
         userId |-> IF id = "o1" THEN "u1" ELSE "u2",
         status |-> "PENDING",
         totalAmount |-> IF id = "o1" THEN 4999 ELSE 3,
         promoCodeId |-> IF id = "o1" THEN "promo1" ELSE Null,
         orderNumber |-> IF id = "o1" THEN "GPT-1" ELSE "GPT-2",
         items |-> IF id = "o1" THEN <<"tee-1", "tee-2">> ELSE <<"tee-3">>,
         address |-> IF id = "o1" THEN "GB" ELSE Null,
         paidAt |-> Unset]]

\* prisma.order.findUnique({ where: { id } }): the order, or nothing
FindUnique(store, id) == IF id \in DOMAIN store THEN <<store[id]>> ELSE <<>>

(***************************************************************************)
(* The checks of handleSuccessfulPayment, in the order the code makes      *)
(* them.                                                                   *)
(***************************************************************************)
\* const sessionTotal = (session.amount_total || 0) / 100
SessionTotal(s) ==
    FDiv(IF s.amount_total = AmountAbsent THEN 0 ELSE s.amount_total, 100)

\* const orderTotal = Number(order.totalAmount): the decimal, held in cents,
\* converted to the nearest number
OrderTotal(order) == FDiv(order.totalAmount, 100)

\* the currency compared as it is spelled
CurrencyCaseSensitive(s) == s.currency

\* const currency = (session.currency || '').toLowerCase()
Currency(s) == ToLowerCase(s.currency)

\* currency && currency !== 'usd'
UnexpectedCurrency(s) == Currency(s) # <<>> /\ Currency(s) # Usd

\* Math.abs(sessionTotal - orderTotal) > 0.01
AmountMismatch(s, order) ==
    FGreater(FAbsSub(SessionTotal(s), OrderTotal(order)), FDiv(1, 100))

\* session.client_reference_id && session.client_reference_id !== order.id
ClientReferenceMismatch(s, order) ==
    Truthy(s.client_reference_id) /\ s.client_reference_id # order.id

\* the session's user compared with the order's identifier
UserMismatchWrongField(s, order) == Truthy(s.userId) /\ s.userId # order.id

\* session.metadata?.userId && session.metadata.userId !== order.userId
UserMismatch(s, order) == Truthy(s.userId) /\ s.userId # order.userId

\* the order identifier looked at before the payment status
GateIdBeforeStatus(s) ==
    IF ~Truthy(s.orderId) THEN "OrderIdNotFound"
    ELSE IF s.payment_status # "paid" THEN "PaymentIncomplete"
    ELSE "Lookup"

\* the lookup made with whatever the metadata holds
GateLooksUpAnyId(s) ==
    IF s.payment_status # "paid" THEN "PaymentIncomplete"
    ELSE "Lookup"

\* the status gate and the order identifier: what the invocation does once
\* the session is retrieved
Gate(s) ==
    IF s.payment_status # "paid" THEN "PaymentIncomplete"
    ELSE IF ~Truthy(s.orderId) THEN "OrderIdNotFound"
    ELSE "Lookup"

\* the checks without the guard for an order already paid
ReconcileNoPaidGuard(s, found) ==
    IF found = <<>> THEN "OrderNotFound"
    ELSE IF ClientReferenceMismatch(s, found[1]) THEN "ClientReferenceMismatch"
    ELSE IF UserMismatch(s, found[1]) THEN "UserMismatch"
    ELSE IF UnexpectedCurrency(s) THEN "UnsupportedCurrency"
    ELSE IF AmountMismatch(s, found[1]) THEN "AmountMismatch"
    ELSE "Commit"

\* the guard for an order already paid made after all the checks
ReconcileGuardLast(s, found) ==
    IF found = <<>> THEN "OrderNotFound"
    ELSE IF ClientReferenceMismatch(s, found[1]) THEN "ClientReferenceMismatch"
    ELSE IF UserMismatch(s, found[1]) THEN "UserMismatch"
    ELSE IF UnexpectedCurrency(s) THEN "UnsupportedCurrency"
    ELSE IF AmountMismatch(s, found[1]) THEN "AmountMismatch"
    ELSE IF found[1].status = "PAID" THEN "AlreadyPaid"
    ELSE "Commit"

\* the currency checked before the user
ReconcileCurrencyBeforeUser(s, found) ==
    IF found = <<>> THEN "OrderNotFound"
    ELSE IF found[1].status = "PAID" THEN "AlreadyPaid"
    ELSE IF ClientReferenceMismatch(s, found[1]) THEN "ClientReferenceMismatch"
    ELSE IF UnexpectedCurrency(s) THEN "UnsupportedCurrency"
    ELSE IF UserMismatch(s, found[1]) THEN "UserMismatch"
    ELSE IF AmountMismatch(s, found[1]) THEN "AmountMismatch"
    ELSE "Commit"

\* what the invocation does with the result of findUnique
Reconcile(s, found) ==
    IF found = <<>> THEN "OrderNotFound"
    ELSE IF found[1].status = "PAID" THEN "AlreadyPaid"
    ELSE IF ClientReferenceMismatch(s, found[1]) THEN "ClientReferenceMismatch"
    ELSE IF UserMismatch(s, found[1]) THEN "UserMismatch"
    ELSE IF UnexpectedCurrency(s) THEN "UnsupportedCurrency"
    ELSE IF AmountMismatch(s, found[1]) THEN "AmountMismatch"
    ELSE "Commit"

\* the payment tagged with the last of the method types
NewPaymentLastMethod(s, orderId) ==
    [orderId |-> orderId,
     stripePaymentId |-> s.payment_intent,
     amount |-> SessionTotal(s),
     currency |-> IF s.currency = <<>> THEN Usd ELSE s.currency,
     status |-> "COMPLETED",
     paymentMethod |-> IF s.payment_method_types = <<>> THEN Card
                       ELSE s.payment_method_types[Len(s.payment_method_types)]]

\* payment: { create: { ... } }
NewPayment(s, orderId) ==
    [orderId |-> orderId,
     stripePaymentId |-> s.payment_intent,
     amount |-> SessionTotal(s),
     currency |-> IF s.currency = <<>> THEN Usd ELSE s.currency,
     status |-> "COMPLETED",
     paymentMethod |-> IF s.payment_method_types = <<>> \/ ~Truthy(s.payment_method_types[1])
                       THEN Card ELSE s.payment_method_types[1]]

(***************************************************************************)
(* The sessions the payment provider may hold (stripe.checkout.sessions).  *)
(***************************************************************************)
Currencies == {<<>>, Usd, <<"U", "S", "D">>, <<"U", "s", "d">>, <<"e", "u", "r">>, <<"E", "U", "R">>}

\* the amounts of the documented examples: 49.98, 49.99, 50.00, 51.00
ExampleCents == {4998, 4999, 5000, 5100}

AmountRange == (0..(MaxCents + 1)) \cup ExampleCents \cup {AmountAbsent}
TotalRange == (0..MaxCents) \cup {4999}

\* the session a checkout of order o ends in when nothing is wrong
GoodSession(o) ==
    [payment_status |-> "paid",
     orderId |-> o,
     userId |-> OrderSeed[o].userId,
     client_reference_id |-> o,
     amount_total |-> OrderSeed[o].totalAmount,
     currency |-> Usd,
     payment_intent |-> "pi_1",
     payment_method_types |-> <<"link", "card">>]

\* the deliveries of the interleaved runs (a session may be delivered more
\* than once): the good sessions, and one session for each way of failing
DeliveredSessions ==
    {GoodSession("o1"),
     GoodSession("o2"),
     [GoodSession("o1") EXCEPT !.payment_status = "unpaid"],
     [GoodSession("o1") EXCEPT !.orderId = Null],
     [GoodSession("o1") EXCEPT !.orderId = UnknownOrderId],
     [GoodSession("o1") EXCEPT !.client_reference_id = "o2"],
     [GoodSession("o2") EXCEPT !.userId = "u1"],
     [GoodSession("o1") EXCEPT !.currency = <<"e", "u", "r">>],
     [GoodSession("o2") EXCEPT !.amount_total = 5100]}

\* paid sessions naming order o1, with every identity, currency and amount
PaidSessions ==
    [payment_status : {"paid"},
     orderId : {"o1"},
     userId : UserIds \cup {Null},
     client_reference_id : OrderIds \cup {Null},
     amount_total : AmountRange,
     currency : Currencies,
     payment_intent : {"pi_1"},
     payment_method_types : {<<"link", "card">>}]

\* sessions of every payment status, with and without an order identifier,
\* naming an order that exists or not, with every identity, and with
\* amounts, currencies and method-type lists around those of the orders
AnySessions ==
    [payment_status : {"paid", "unpaid", "no_payment_required"},
     orderId : OrderIds \cup {Null, UnknownOrderId},
     userId : UserIds \cup {Null},
     client_reference_id : OrderIds \cup {Null},
     amount_total : {AmountAbsent, 3, 4999, 5000, 5100},
     currency : {<<>>, Usd, <<"U", "S", "D">>, <<"e", "u", "r">>},
     payment_intent : {"pi_1"},
     payment_method_types : {<<>>, <<"card">>, <<"link", "card">>}]

NoSession ==
    [payment_status |-> "none", orderId |-> Null, userId |-> Null,
     client_reference_id |-> Null, amount_total |-> AmountAbsent, currency |-> <<>>,
     payment_intent |-> Null, payment_method_types |-> <<>>]

(***************************************************************************)
(* State.                                                                  *)
(***************************************************************************)
Calls == 1..NumCalls
Effects == {"promo", "confirmation", "guide", "analytics"}

VARIABLES
    orders,       \* the order table: id -> order
    payments,     \* the payment table, in order of creation
    clock,        \* new Date()
    pc,           \* per invocation: where it is
    session,      \* per invocation: the session retrieved
    order,        \* per invocation: the result of findUnique, <<>> or <<order>>
    updatedOrder, \* per invocation: the result of update, <<>> or <<order>>
    error,        \* per invocation: the error thrown to the caller, or Null
    initiated,    \* per order and side effect: how often it was initiated
    promise,      \* per invocation: its two message promises
    analytics     \* per invocation: none | emitted | failed

vars == <<orders, payments, clock, pc, session, order, updatedOrder, error,
          initiated, promise, analytics>>

store == <<orders, payments, clock>>
effects == <<initiated, promise, analytics>>

InitCalls ==
    /\ payments = <<>>
    /\ clock = 1
    /\ pc = [p \in Calls |-> "idle"]
    /\ session = [p \in Calls |-> NoSession]
    /\ order = [p \in Calls |-> <<>>]
    /\ updatedOrder = [p \in Calls |-> <<>>]
    /\ error = [p \in Calls |-> Null]
    /\ initiated = [o \in OrderIds |-> [k \in Effects |-> 0]]
    /\ promise = [p \in Calls |-> [confirmation |-> "none", guide |-> "none"]]
    /\ analytics = [p \in Calls |-> "none"]

\* the orders upstream created, both pending
Init ==
    /\ orders = OrderSeed
    /\ InitCalls

\* order o1 with any total of the range, pending or in another status that
\* is not paid
InitTotals ==
    /\ \E t \in TotalRange, st \in {"PENDING", "CANCELLED"} :
           orders = [OrderSeed EXCEPT !["o1"].totalAmount = t, !["o1"].status = st]
    /\ InitCalls

\* order o1 pending, in another status that is not paid, or paid by an
\* earlier invocation, which left its payment; order o2 pending
InitAny ==
    /\ \E st \in {"PENDING", "CANCELLED", "PAID"} :
           IF st = "PAID"
           THEN /\ orders = [OrderSeed EXCEPT !["o1"].status = "PAID", !["o1"].paidAt = 1]
                /\ payments = <<NewPayment(GoodSession("o1"), "o1")>>
                /\ clock = 2
           ELSE /\ orders = [OrderSeed EXCEPT !["o1"].status = st]
                /\ payments = <<>>
                /\ clock = 1
    /\ pc = [p \in Calls |-> "idle"]
    /\ session = [p \in Calls |-> NoSession]
    /\ order = [p \in Calls |-> <<>>]
    /\ updatedOrder = [p \in Calls |-> <<>>]
    /\ error = [p \in Calls |-> Null]
    /\ initiated = [o \in OrderIds |-> [k \in Effects |-> 0]]
    /\ promise = [p \in Calls |-> [confirmation |-> "none", guide |-> "none"]]
    /\ analytics = [p \in Calls |-> "none"]

(***************************************************************************)
(* handleSuccessfulPayment, one action per run between two awaits.         *)
(***************************************************************************)
\* throw new Error(kind)
Throw(p, kind) ==
    /\ pc' = [pc EXCEPT ![p] = "threw"]
    /\ error' = [error EXCEPT ![p] = kind]

\* handleSuccessfulPayment(sessionId) is called; the session is requested.
\* Invocations are numbered in the order of their calls.
Invoke(p, s) ==
    /\ pc[p] = "idle"
    /\ \A q \in 1..(p - 1) : pc[q] # "idle"
    /\ pc' = [pc EXCEPT ![p] = "retrieve"]
    /\ session' = [session EXCEPT ![p] = s]
    /\ UNCHANGED <<store, order, updatedOrder, error, effects>>

\* the session arrives: the status gate, the order identifier, findUnique
Retrieved(p) ==
    /\ pc[p] = "retrieve"
    /\ IF Gate(session[p]) = "Lookup"
       THEN pc' = [pc EXCEPT ![p] = "findUnique"] /\ UNCHANGED error
       ELSE Throw(p, Gate(session[p]))
    /\ UNCHANGED <<store, session, order, updatedOrder, effects>>

\* the order marked paid before the amount is checked
FoundUpdatesBeforeAmountCheck(p) ==
    /\ pc[p] = "findUnique"
    /\ LET found == FindUnique(orders, session[p].orderId)
           next == Reconcile(session[p], found)
       IN  /\ order' = [order EXCEPT ![p] = found]
           /\ CASE next = "Commit" -> pc' = [pc EXCEPT ![p] = "update"] /\ UNCHANGED <<error, orders>>
                [] next = "AlreadyPaid" -> pc' = [pc EXCEPT ![p] = "returned"] /\ UNCHANGED <<error, orders>>
                [] next = "AmountMismatch" ->
                       /\ orders' = [orders EXCEPT ![found[1].id].status = "PAID"]
                       /\ Throw(p, next)
                [] OTHER -> Throw(p, next) /\ UNCHANGED orders
    /\ UNCHANGED <<payments, clock, session, updatedOrder, effects>>

\* the messages and the analytics event sent again for an order found paid
FoundResendsWhenPaid(p) ==
    /\ pc[p] = "findUnique"
    /\ LET found == FindUnique(orders, session[p].orderId)
           next == Reconcile(session[p], found)
       IN  /\ order' = [order EXCEPT ![p] = found]
           /\ CASE next = "Commit" -> pc' = [pc EXCEPT ![p] = "update"] /\ UNCHANGED <<error, effects>>
                [] next = "AlreadyPaid" ->
                       /\ initiated' = [initiated EXCEPT ![found[1].id] =
                              [k \in Effects |-> IF k = "promo" THEN @[k] ELSE @[k] + 1]]
                       /\ pc' = [pc EXCEPT ![p] = "returned"]
                       /\ UNCHANGED <<error, promise, analytics>>
                [] OTHER -> Throw(p, next) /\ UNCHANGED effects
    /\ UNCHANGED <<store, session, updatedOrder>>

\* the promo-usage increment initiated before the update is requested
FoundIncrementsPromoFirst(p) ==
    /\ pc[p] = "findUnique"
    /\ LET found == FindUnique(orders, session[p].orderId)
           next == Reconcile(session[p], found)
       IN  /\ order' = [order EXCEPT ![p] = found]
           /\ CASE next = "Commit" ->
                       /\ initiated' = [initiated EXCEPT ![found[1].id]["promo"] = @ + 1]
                       /\ pc' = [pc EXCEPT ![p] = "update"]
                       /\ UNCHANGED <<error, promise, analytics>>
                [] next = "AlreadyPaid" -> pc' = [pc EXCEPT ![p] = "returned"] /\ UNCHANGED <<error, effects>>
                [] OTHER -> Throw(p, next) /\ UNCHANGED effects
    /\ UNCHANGED <<store, session, updatedOrder>>

\* findUnique answers: the guards and checks, then update is requested
Found(p) ==
    /\ pc[p] = "findUnique"
    /\ LET found == FindUnique(orders, session[p].orderId)
           next == Reconcile(session[p], found)
       IN  /\ order' = [order EXCEPT ![p] = found]
           /\ CASE next = "Commit" -> pc' = [pc EXCEPT ![p] = "update"] /\ UNCHANGED error
                [] next = "AlreadyPaid" -> pc' = [pc EXCEPT ![p] = "returned"] /\ UNCHANGED error
                [] OTHER -> Throw(p, next)
    /\ UNCHANGED <<store, session, updatedOrder, effects>>

\* the payment created on its own, the order left as it is
UpdatePaymentOnly(p) ==
    /\ pc[p] = "update"
    /\ payments' = Append(payments, NewPayment(session[p], session[p].orderId))
    /\ updatedOrder' = [updatedOrder EXCEPT ![p] = <<orders[session[p].orderId]>>]
    /\ pc' = [pc EXCEPT ![p] = "updated"]
    /\ UNCHANGED <<orders, clock, session, order, error, effects>>

\* the update without its where clause: every pending order marked paid
UpdateEveryPending(p) ==
    /\ pc[p] = "update"
    /\ LET id == session[p].orderId
           updated == [orders[id] EXCEPT !.status = "PAID", !.paidAt = clock]
       IN  /\ orders' = [o \in OrderIds |->
                  IF o = id THEN updated
                  ELSE IF orders[o].status = "PENDING"
                       THEN [orders[o] EXCEPT !.status = "PAID", !.paidAt = clock]
                       ELSE orders[o]]
           /\ payments' = Append(payments, NewPayment(session[p], id))
           /\ updatedOrder' = [updatedOrder EXCEPT ![p] = <<updated>>]
    /\ clock' = clock + 1
    /\ pc' = [pc EXCEPT ![p] = "updated"]
    /\ UNCHANGED <<session, order, error, effects>>

\* prisma.order.update: the status, the timestamp and the payment, at once
Update(p) ==
    /\ pc[p] = "update"
    /\ LET id == session[p].orderId
           updated == [orders[id] EXCEPT !.status = "PAID", !.paidAt = clock]
       IN  /\ orders' = [orders EXCEPT ![id] = updated]
           /\ payments' = Append(payments, NewPayment(session[p], id))
           /\ updatedOrder' = [updatedOrder EXCEPT ![p] = <<updated>>]
    /\ clock' = clock + 1
    /\ pc' = [pc EXCEPT ![p] = "updated"]
    /\ UNCHANGED <<session, order, error, effects>>

\* the outcomes of sendAnalyticsEvent: it returns nothing awaited, and a
\* failure of the emission stays inside it
AnalyticsOutcomes == {"emitted", "failed"}

\* sendOrderConfirmation(...).catch, sendPromptGuide(...).catch,
\* sendAnalyticsEvent(...), and the return
Dispatch(p) ==
    LET id == updatedOrder[p][1].id
    IN  /\ initiated' = [initiated EXCEPT ![id] =
               [k \in Effects |-> IF k = "promo" THEN @[k] ELSE @[k] + 1]]
        /\ promise' = [promise EXCEPT ![p] = [confirmation |-> "pending", guide |-> "pending"]]
        /\ \E a \in AnalyticsOutcomes : analytics' = [analytics EXCEPT ![p] = a]
        /\ pc' = [pc EXCEPT ![p] = "returned"]
        /\ UNCHANGED error

\* update answers: the promo-usage increment is awaited when the order has
\* a promo code, and otherwise the messages go out at once
AfterUpdate(p) ==
    /\ pc[p] = "updated"
    /\ IF Truthy(updatedOrder[p][1].promoCodeId)
       THEN /\ initiated' = [initiated EXCEPT ![updatedOrder[p][1].id]["promo"] = @ + 1]
            /\ pc' = [pc EXCEPT ![p] = "promo"]
            /\ UNCHANGED <<error, promise, analytics>>
       ELSE Dispatch(p)
    /\ UNCHANGED <<store, session, order, updatedOrder>>

\* await incrementPromoUsage(...) ends: fulfilled, or rejected
PromoSettled(p, fulfilled) ==
    /\ pc[p] = "promo"
    /\ IF fulfilled
       THEN Dispatch(p)
       ELSE Throw(p, "PromoIncrementFailed") /\ UNCHANGED effects
    /\ UNCHANGED <<store, session, order, updatedOrder>>

\* a message promise without its .catch: the rejection reaches the caller
MessageSettledEscalates(p, k, fulfilled) ==
    /\ promise[p][k] = "pending"
    /\ promise' = [promise EXCEPT ![p][k] = IF fulfilled THEN "fulfilled" ELSE "rejected"]
    /\ IF fulfilled THEN UNCHANGED <<pc, error>> ELSE Throw(p, "MessageFailed")
    /\ UNCHANGED <<store, session, order, updatedOrder, initiated, analytics>>

\* a message promise ends: fulfilled, or rejected and caught by its .catch,
\* which logs the error
MessageSettled(p, k, fulfilled) ==
    /\ promise[p][k] = "pending"
    /\ promise' = [promise EXCEPT ![p][k] = IF fulfilled THEN "fulfilled" ELSE "caught"]
    /\ UNCHANGED <<store, pc, session, order, updatedOrder, error, initiated, analytics>>

Step(p) ==
    \/ Retrieved(p)
    \/ Found(p)
    \/ Update(p)
    \/ AfterUpdate(p)
    \/ \E fulfilled \in BOOLEAN : PromoSettled(p, fulfilled)
    \/ \E k \in {"confirmation", "guide"}, fulfilled \in BOOLEAN : MessageSettled(p, k, fulfilled)

\* an invocation is between its call and its return or throw
InFlight(p) == pc[p] \notin {"idle", "returned", "threw"}

(***************************************************************************)
(* Specifications.                                                         *)
(***************************************************************************)
\* webhook deliveries arrive at any time: invocations interleave
Next ==
    \/ \E p \in Calls, s \in DeliveredSessions : Invoke(p, s)
    \/ \E p \in Calls : Step(p)

Spec == Init /\ [][Next]_vars

\* a delivery arrives only when no invocation is in flight
NextSeq ==
    \/ \E p \in Calls, s \in DeliveredSessions :
           (\A q \in Calls : ~InFlight(q)) /\ Invoke(p, s)
    \/ \E p \in Calls : Step(p)

SpecSeq == Init /\ [][NextSeq]_vars

\* one invocation, for every paid session naming o1 and every total of o1
NextOne ==
    \/ \E s \in PaidSessions : Invoke(1, s)
    \/ \E p \in Calls : Step(p)

SpecOne == InitTotals /\ [][NextOne]_vars

\* one invocation, for every session of any payment status and every state
\* of the order it names
NextAny ==
    \/ pc[1] = "idle" /\ \E s \in AnySessions : Invoke(1, s)
    \/ \E p \in Calls : Step(p)

SpecAny == InitAny /\ [][NextAny]_vars

\* the caller of the claim's premise: after an invocation that ended in an
\* error it calls handleSuccessfulPayment again with the same session
Retry(p) ==
    /\ pc[p] = "threw"
    /\ p + 1 \in Calls
    /\ Invoke(p + 1, session[p])

\* the sessions of the first delivery: those of the interleaved runs, and
\* the good sessions with the currency in capitals or absent
FirstDeliveries ==
    DeliveredSessions \cup
        {[GoodSession(o) EXCEPT !.currency = c] : o \in OrderIds, c \in {<<>>, <<"U", "S", "D">>}}

\* a first delivery, and then a new call after every call that threw
NextRetry ==
    \/ pc[1] = "idle" /\ \E s \in FirstDeliveries : Invoke(1, s)
    \/ \E p \in Calls : Retry(p)
    \/ \E p \in Calls : Step(p)

\* the event loop runs every continuation that is ready, a promise that is
\* pending settles, and the caller does call again: weak fairness of every
\* step of every invocation and of the caller.  The answers of findUnique
\* and of update are enabled exactly while the invocation waits for them,
\* and their fairness is written with that condition.
FairRetry ==
    \A p \in Calls :
        /\ WF_vars(Retry(p))
        /\ WF_vars(Retrieved(p))
        /\ <>[](pc[p] = "findUnique") => []<><<Found(p)>>_vars
        /\ <>[](pc[p] = "update") => []<><<Update(p)>>_vars
        /\ WF_vars(AfterUpdate(p))
        /\ WF_vars(\E fulfilled \in BOOLEAN : PromoSettled(p, fulfilled))
        /\ WF_vars(\E k \in {"confirmation", "guide"}, fulfilled \in BOOLEAN :
                       MessageSettled(p, k, fulfilled))

SpecRetry == Init /\ [][NextRetry]_vars /\ FairRetry

(***************************************************************************)
(* Properties.                                                             *)
(***************************************************************************)
\* the payments of order o
PaymentsOf(table, o) == SelectSeq(table, LAMBDA pay : pay.orderId = o)

\* invocation p has got the answer of findUnique
HasLooked(p) ==
    /\ pc[p] \in {"update", "updated", "promo", "returned", "threw"}
    /\ error[p] \notin {"PaymentIncomplete", "OrderIdNotFound"}

\* invocation p has performed the update
HasCommitted(p) == updatedOrder[p] # <<>>

\* invocation p found its order, and found it paid
FoundPaid(p) == HasLooked(p) /\ order[p] # <<>> /\ order[p][1].status = "PAID"

\* invocation p found its order, and found it not paid
FoundUnpaid(p) == HasLooked(p) /\ order[p] # <<>> /\ order[p][1].status # "PAID"

\* C1: when invocations do not overlap, an order becomes paid at most once
\* and gets exactly one Payment: once an order is paid, no step changes it
\* or its payments, a paid order has exactly one payment, and an invocation
\* that found its order paid has returned without an error and without an
\* update.
C1_PaidOnce ==
    /\ [](\A o \in OrderIds :
            /\ Len(PaymentsOf(payments, o)) <= 1
            /\ orders[o].status = "PAID" => Len(PaymentsOf(payments, o)) = 1)
    /\ [](\A p \in Calls :
            FoundPaid(p) => pc[p] = "returned" /\ error[p] = Null /\ ~HasCommitted(p))
    /\ [][\A o \in OrderIds :
            orders[o].status = "PAID" =>
                /\ orders'[o] = orders[o]
                /\ PaymentsOf(payments', o) = PaymentsOf(payments, o)]_vars

\* C1 witness: a later invocation found the order paid by an earlier one
C1_Witness ==
    \E p, q \in Calls :
        /\ p # q
        /\ HasCommitted(p)
        /\ FoundPaid(q)
        /\ session[q].orderId = session[p].orderId

\* C2: of two invocations for one order, never both find the order unpaid
\* and both perform the update, and no order ever has two payments.
C2_NoDoubleCommit ==
    /\ \A p, q \in Calls :
           (p # q /\ session[p].orderId = session[q].orderId)
               => ~(FoundUnpaid(p) /\ HasCommitted(p) /\ FoundUnpaid(q) /\ HasCommitted(q))
    /\ \A o \in OrderIds : Len(PaymentsOf(payments, o)) <= 1

\* C3: a payment exists only for an order that is paid and has its paid
\* timestamp, and every step changes an order exactly when it adds a
\* payment for it, leaving it paid.
C3_PaymentImpliesPaid ==
    /\ [](\A i \in 1..Len(payments) :
            /\ payments[i].orderId \in OrderIds
            /\ orders[payments[i].orderId].status = "PAID"
            /\ orders[payments[i].orderId].paidAt # Unset)
    /\ [][\A o \in OrderIds :
            /\ (orders'[o] # orders[o]) <=> (PaymentsOf(payments', o) # PaymentsOf(payments, o))
            /\ orders'[o] # orders[o] =>
                   /\ orders'[o].status = "PAID"
                   /\ orders'[o].paidAt # Unset
                   /\ Len(PaymentsOf(payments', o)) = Len(PaymentsOf(payments, o)) + 1]_vars

\* C3 witness: a payment exists while another invocation is under way
C3_Witness ==
    /\ payments # <<>>
    /\ \E p \in Calls : InFlight(p)

\* the six failures of the checks (the identity mismatch is of the client
\* reference or of the user)
CheckFailures ==
    {"PaymentIncomplete", "OrderIdNotFound", "OrderNotFound",
     "ClientReferenceMismatch", "UserMismatch", "UnsupportedCurrency", "AmountMismatch"}

\* C4: an invocation that ends with one of the six failures has changed
\* nothing: the step that throws leaves the store and the side effects as
\* they are, the order it found has the status it was found with, and the
\* invocation has made no update and no dispatch before.
C4_FailureChangesNothing ==
    [][\A p \in Calls :
        (error[p] = Null /\ error'[p] \in CheckFailures) =>
            /\ store' = store
            /\ effects' = effects
            /\ ~HasCommitted(p) /\ updatedOrder'[p] = <<>>
            /\ promise[p] = [confirmation |-> "none", guide |-> "none"]
            /\ analytics[p] = "none"
            /\ order'[p] # <<>> => orders'[order'[p][1].id] = order'[p][1]]_vars

\* C4 witness: an invocation has failed on the amount, its order is pending
C4_Witness ==
    \E p \in Calls :
        /\ error[p] = "AmountMismatch"
        /\ orders[session[p].orderId].status = "PENDING"
        /\ PaymentsOf(payments, session[p].orderId) = <<>>

\* C5: an invocation that has performed the update ends without an error.
C5_CommitMeansSuccess ==
    \A p \in Calls : HasCommitted(p) => error[p] = Null

\* invocation p has initiated its messages and its analytics event
HasDispatched(p) == promise[p].confirmation # "none"

\* C6: an invocation that has dispatched the two messages and the analytics
\* event has returned without an error, whatever became of the three, and
\* its order is paid and has its payment.
C6_DispatchFailuresStayLocal ==
    \A p \in Calls :
        HasDispatched(p) =>
            /\ pc[p] = "returned"
            /\ error[p] = Null
            /\ orders[updatedOrder[p][1].id].status = "PAID"
            /\ PaymentsOf(payments, updatedOrder[p][1].id) # <<>>

\* C6 witness: both messages and the analytics event have failed
C6_Witness ==
    \E p \in Calls :
        /\ promise[p] = [confirmation |-> "caught", guide |-> "caught"]
        /\ analytics[p] = "failed"
        /\ pc[p] = "returned"

\* C7: the messages and the analytics event do not wait for the promo-usage
\* increment: while the increment is pending, and after it has failed, they
\* have been initiated.
C7_DispatchDoesNotWaitForPromo ==
    \A p \in Calls :
        (pc[p] = "promo" \/ error[p] = "PromoIncrementFailed") => HasDispatched(p)

\* the session names an order or a user other than those of the order
IdentityDisagrees(s, o) ==
    \/ s.client_reference_id # Null /\ s.client_reference_id # o.id
    \/ s.userId # Null /\ s.userId # o.userId

IdentityFailures == {"ClientReferenceMismatch", "UserMismatch"}

\* C8: for an order found unpaid, the invocation fails with an identity
\* mismatch exactly when the session's client reference or user is present
\* and differs from the order's; the order is then as it was found and no
\* update is made, and an absent identifier never gives the failure.
C8_IdentityChecked ==
    \A p \in Calls :
        FoundUnpaid(p) =>
            /\ (error[p] \in IdentityFailures) <=> IdentityDisagrees(session[p], order[p][1])
            /\ IdentityDisagrees(session[p], order[p][1]) =>
                   /\ pc[p] = "threw"
                   /\ ~HasCommitted(p)
                   /\ orders[order[p][1].id] = order[p][1]
                   /\ payments = <<>>

\* C8 witness: a session without client reference and user has committed
C8_Witness ==
    \E p \in Calls :
        /\ HasCommitted(p)
        /\ session[p].client_reference_id = Null
        /\ session[p].userId = Null

\* the session amount in cents, an absent amount being 0
CentsOf(s) == IF s.amount_total = AmountAbsent THEN 0 ELSE s.amount_total

\* 'usd' in any letter case
UsdAnyCase ==
    {c \in Currencies : Len(c) = 3 /\ c[1] \in {"u", "U"} /\ c[2] \in {"s", "S"} /\ c[3] \in {"d", "D"}}

\* C9: for an order found unpaid and a session that matches it in identity
\* and has an acceptable currency, the amount is accepted exactly when it
\* differs from the order total by at most one cent.
C9_ToleranceOneCent ==
    \A p \in Calls :
        (/\ FoundUnpaid(p)
         /\ ~IdentityDisagrees(session[p], order[p][1])
         /\ session[p].currency \in UsdAnyCase \cup {<<>>})
        => LET d == CentsOf(session[p]) - order[p][1].totalAmount
           IN  (error[p] # "AmountMismatch") <=> (d \in {-1, 0, 1})

\* C10: for an order found unpaid and a session that matches it in identity,
\* a currency that is present and is not 'usd' in some letter case fails
\* with UnsupportedCurrency and leaves the order as found, whatever the
\* amount; 'usd' in any case and the absent currency never give that
\* failure.
C10_CurrencyChecked ==
    \A p \in Calls :
        (FoundUnpaid(p) /\ ~IdentityDisagrees(session[p], order[p][1])) =>
            /\ (error[p] = "UnsupportedCurrency") <=> (session[p].currency \notin UsdAnyCase \cup {<<>>})
            /\ error[p] = "UnsupportedCurrency" =>
                   /\ ~HasCommitted(p)
                   /\ orders[order[p][1].id] = order[p][1]
                   /\ payments = <<>>

\* C10 witness: a session in 'USD' has passed the check and committed
C10_Witness ==
    \E p \in Calls :
        /\ HasCommitted(p)
        /\ session[p].currency = <<"U", "S", "D">>

\* invocation p has got its session
HasSession(p) == pc[p] \notin {"idle", "retrieve"}

\* C11: an invocation whose session has a payment status other than 'paid'
\* fails with PaymentIncomplete whatever else the session holds and
\* whatever the state of the order it names: it has asked for no order, has
\* made no update and no dispatch, and no step taken while it is under way
\* changes the store or initiates a side effect.
C11_UnpaidFailsWithoutMutation ==
    /\ [](\A p \in Calls :
            (HasSession(p) /\ session[p].payment_status # "paid") =>
                /\ pc[p] = "threw"
                /\ error[p] = "PaymentIncomplete"
                /\ order[p] = <<>>
                /\ ~HasCommitted(p)
                /\ ~HasDispatched(p))
    /\ [][(\E p \in Calls : pc[p] # "idle" /\ session[p].payment_status # "paid")
            => (store' = store /\ effects' = effects)]_vars

\* C11 witness: an unpaid session that names a paid order, with another
\* order as client reference and a currency that is not supported
C11_Witness ==
    \E p \in Calls :
        /\ error[p] = "PaymentIncomplete"
        /\ session[p].payment_status = "unpaid"
        /\ session[p].orderId = "o1"
        /\ orders["o1"].status = "PAID"
        /\ session[p].client_reference_id = "o2"
        /\ session[p].currency = <<"e", "u", "r">>

\* C12: when invocations do not overlap, each of the four side effects (the
\* promo-usage increment, the confirmation message, the prompt guide, the
\* analytics event) is initiated at most once for an order; an invocation
\* that found its order paid has dispatched nothing, and the step in which
\* it finds the order paid initiates nothing.
C12_EffectsAtMostOnce ==
    /\ [](\A o \in OrderIds, k \in Effects : initiated[o][k] <= 1)
    /\ [](\A p \in Calls :
            FoundPaid(p) => ~HasDispatched(p) /\ analytics[p] = "none")
    /\ [][\A p \in Calls :
            (pc[p] = "findUnique" /\ pc'[p] = "returned") => effects' = effects]_vars

\* C12 witness: an invocation found paid an order for which all four side
\* effects had been initiated, and returned
C12_Witness ==
    \E p \in Calls :
        /\ FoundPaid(p)
        /\ pc[p] = "returned"
        /\ \A k \in Effects : initiated[order[p][1].id][k] = 1

\* C13: the only change of status a step makes is from pending to paid: an
\* order in another status is never made paid, a paid order keeps its
\* status, and no order leaves the store.
C13_OnlyPendingBecomesPaid ==
    [][/\ DOMAIN orders' = DOMAIN orders
       /\ \A o \in OrderIds :
            orders'[o].status # orders[o].status =>
                orders[o].status = "PENDING" /\ orders'[o].status = "PAID"]_vars

\* the session's metadata carries no order identifier
NoOrderId(s) == s.orderId = Null \/ s.orderId = ""

\* C14: an invocation with a paid session whose metadata carries no order
\* identifier fails with OrderIdNotFound and has asked for no order; with an
\* identifier of no order it fails with OrderNotFound; in both cases the
\* step that fails, and every step while the invocation is under way,
\* leaves the orders and the payments as they are.
C14_MissingOrderFails ==
    /\ [](\A p \in Calls :
            (HasSession(p) /\ session[p].payment_status = "paid") =>
                /\ NoOrderId(session[p]) =>
                       /\ pc[p] = "threw"
                       /\ error[p] = "OrderIdNotFound"
                       /\ order[p] = <<>>
                /\ (~NoOrderId(session[p]) /\ session[p].orderId \notin DOMAIN orders) =>
                       /\ pc[p] \in {"findUnique", "threw"}
                       /\ pc[p] = "threw" => error[p] = "OrderNotFound"
                       /\ order[p] = <<>>
                       /\ ~HasCommitted(p))
    /\ [][(\E p \in Calls :
             /\ pc[p] # "idle"
             /\ session[p].payment_status = "paid"
             /\ session[p].orderId \notin DOMAIN orders)
            => (store' = store /\ effects' = effects)]_vars
    /\ [][\A p \in Calls :
            (error[p] = Null /\ error'[p] = "OrderIdNotFound") => pc[p] = "retrieve"]_vars

\* C14 witness: a paid session without an order identifier, otherwise that
\* of a good checkout, has failed while order o1 is pending
C14_Witness ==
    \E p \in Calls :
        /\ error[p] = "OrderIdNotFound"
        /\ session[p].client_reference_id = "o1"
        /\ session[p].userId = "u1"
        /\ session[p].amount_total = 4999
        /\ orders["o1"].status = "PENDING"

\* C15: the payment an invocation created is the only payment of its order
\* and holds the session's payment intent, the session amount divided by
\* 100 (one cent or less away from the order total, and not more than 0.01
\* away as the numbers compare), the session currency as spelled or 'usd'
\* when the session has none, the status COMPLETED, and the first of the
\* session's method types or 'card' when the session has none.
C15_PaymentFields ==
    \A p \in Calls :
        HasCommitted(p) =>
            LET s == session[p]
                pays == PaymentsOf(payments, s.orderId)
            IN  /\ Len(pays) = 1
                /\ pays[1].stripePaymentId = s.payment_intent
                /\ pays[1].amount = FDiv(CentsOf(s), 100)
                /\ CentsOf(s) - order[p][1].totalAmount \in {-1, 0, 1}
                /\ ~FGreater(FAbsSub(pays[1].amount, FDiv(order[p][1].totalAmount, 100)),
                             FDiv(1, 100))
                /\ pays[1].currency = (IF s.currency = <<>> THEN Usd ELSE s.currency)
                /\ pays[1].status = "COMPLETED"
                /\ pays[1].paymentMethod =
                       (IF s.payment_method_types = <<>> THEN Card
                        ELSE Head(s.payment_method_types))

\* C15 witness: a commit from a session one cent above the order total,
\* without currency and without method types
C15_Witness ==
    \E p \in Calls :
        /\ HasCommitted(p)
        /\ session[p].amount_total = order[p][1].totalAmount + 1
        /\ session[p].currency = <<>>
        /\ session[p].payment_method_types = <<>>

\* the stages in the order of the claim, each named by what it reports
\* when it stops the invocation
StageOrder ==
    <<"PaymentIncomplete", "OrderIdNotFound", "OrderNotFound", "AlreadyPaid",
      "ClientReferenceMismatch", "UserMismatch", "UnsupportedCurrency", "AmountMismatch">>

\* stage k stops an invocation with session s whose lookup gives found
StageStops(k, s, found) ==
    CASE k = 1 -> s.payment_status # "paid"
      [] k = 2 -> NoOrderId(s)
      [] k = 3 -> found = <<>>
      [] k = 4 -> found[1].status = "PAID"
      [] k = 5 -> s.client_reference_id # Null /\ s.client_reference_id # found[1].id
      [] k = 6 -> s.userId # Null /\ s.userId # found[1].userId
      [] k = 7 -> s.currency \notin UsdAnyCase \cup {<<>>}
      [] k = 8 -> AmountMismatch(s, found[1])

\* the reference: the first stage from k on that stops, or the commit
RECURSIVE ReferenceFrom(_, _, _)
ReferenceFrom(k, s, found) ==
    IF k > Len(StageOrder) THEN "Commit"
    ELSE IF StageStops(k, s, found) THEN StageOrder[k]
    ELSE ReferenceFrom(k + 1, s, found)

\* invocation p is through its checks
ChecksDone(p) == HasSession(p) /\ pc[p] # "findUnique"

\* what the checks of invocation p ended in
Outcome(p) ==
    IF HasCommitted(p) \/ pc[p] = "update" THEN "Commit"
    ELSE IF pc[p] = "threw" THEN error[p]
    ELSE "AlreadyPaid"

\* the order as the lookup of p gave it, or as it would give it
OrderSeen(p) ==
    IF HasLooked(p) THEN order[p] ELSE FindUnique(orders, session[p].orderId)

\* C16: the checks of an invocation end as the reference says, which
\* evaluates the stages in the order status gate, order identifier, order
\* existence, paid guard, client reference, user, currency, amount, and
\* reports the first that stops; the lookup is made only past the first two
\* stages, and the update only when no stage stops.
C16_StagesInOrder ==
    \A p \in Calls :
        /\ ChecksDone(p) =>
               Outcome(p) = ReferenceFrom(1, session[p], OrderSeen(p))
        /\ pc[p] = "findUnique" =>
               ~StageStops(1, session[p], <<>>) /\ ~StageStops(2, session[p], <<>>)

\* C16 witness: a session wrong in user, currency and amount has failed on
\* the user
C16_Witness ==
    \E p \in Calls :
        /\ error[p] = "UserMismatch"
        /\ session[p].currency = <<"e", "u", "r">>
        /\ session[p].amount_total = 5100

\* C17: when a side effect (the promo-usage increment, a message, the
\* analytics event) has been initiated for an order, the order is paid,
\* has its paid timestamp and has a payment; an invocation initiates one
\* only after its own update.
C17_NoEffectBeforeCommit ==
    /\ \A o \in OrderIds :
           (\E k \in Effects : initiated[o][k] > 0) =>
               /\ orders[o].status = "PAID"
               /\ orders[o].paidAt # Unset
               /\ PaymentsOf(payments, o) # <<>>
    /\ \A p \in Calls :
           (pc[p] = "promo" \/ HasDispatched(p) \/ analytics[p] # "none") => HasCommitted(p)

\* C17 witness: the promo-usage increment of a paid order is pending while
\* another invocation for the order has not yet looked it up
C17_Witness ==
    \E p, q \in Calls :
        /\ pc[p] = "promo"
        /\ pc[q] = "findUnique"
        /\ session[q].orderId = session[p].orderId

\* C18: a step changes at most one order, the one named by the session of
\* the invocation whose update it is, and of that order only the status and
\* the paid timestamp; the identifier, the user, the total, the order
\* number, the items, the address and the promo code of every order stay as
\* they are, no order is added or removed, and the payments only grow, by a
\* payment of the order changed.
C18_FrameOfUpdate ==
    [][/\ DOMAIN orders' = DOMAIN orders
       /\ \A o \in OrderIds :
            /\ orders'[o].id = orders[o].id
            /\ orders'[o].userId = orders[o].userId
            /\ orders'[o].totalAmount = orders[o].totalAmount
            /\ orders'[o].orderNumber = orders[o].orderNumber
            /\ orders'[o].items = orders[o].items
            /\ orders'[o].address = orders[o].address
            /\ orders'[o].promoCodeId = orders[o].promoCodeId
            /\ (orders'[o] # orders[o] \/ PaymentsOf(payments', o) # PaymentsOf(payments, o)) =>
                   \E p \in Calls :
                       /\ pc[p] = "update" /\ pc'[p] = "updated"
                       /\ session[p].orderId = o
                       /\ \A other \in OrderIds \ {o} : orders'[other] = orders[other]
       /\ Len(payments') >= Len(payments)
       /\ SubSeq(payments', 1, Len(payments)) = payments]_vars

\* C18 witness: order o2 has been committed and order o1 is as it was
\* created
C18_Witness ==
    \E p \in Calls :
        /\ HasCommitted(p)
        /\ session[p].orderId = "o2"
        /\ orders["o2"].status = "PAID"
        /\ orders["o1"] = OrderSeed["o1"]

\* C19: an invocation with a paid session that finds its order paid returns
\* without an error, an update or a dispatch, whatever the session's client
\* reference, user, currency and amount; the step in which it finds the
\* order paid changes neither the store nor the side effects.
C19_PaidGuardFirst ==
    /\ [](\A p \in Calls :
            (/\ ChecksDone(p)
             /\ session[p].payment_status = "paid"
             /\ session[p].orderId \in DOMAIN orders
             /\ order[p] # <<>>
             /\ order[p][1].status = "PAID")
            => /\ pc[p] = "returned"
               /\ error[p] = Null
               /\ ~HasCommitted(p)
               /\ ~HasDispatched(p)
               /\ analytics[p] = "none")
    /\ [][\A p \in Calls :
            (/\ pc[p] = "findUnique"
             /\ pc'[p] # "findUnique"
             /\ session[p].orderId \in DOMAIN orders
             /\ orders[session[p].orderId].status = "PAID")
            => (pc'[p] = "returned" /\ store' = store /\ effects' = effects)]_vars

\* C19 witness: a session that disagrees with the paid order in client
\* reference, user, currency and amount has returned
C19_Witness ==
    \E p \in Calls :
        /\ pc[p] = "returned"
        /\ order[p] # <<>> /\ order[p][1].id = "o1" /\ order[p][1].status = "PAID"
        /\ session[p].client_reference_id = "o2"
        /\ session[p].userId = "u2"
        /\ session[p].currency = <<"e", "u", "r">>
        /\ session[p].amount_total = 5100

\* C20: under a caller that calls again with the same session after every
\* invocation that threw, and under fairness, an order that has become paid
\* eventually has its confirmation message, its prompt guide and its
\* analytics event initiated.
C20_RetryDeliversMessages ==
    \A o \in OrderIds :
        (orders[o].status = "PAID") ~>
            (/\ initiated[o]["confirmation"] > 0
             /\ initiated[o]["guide"] > 0
             /\ initiated[o]["analytics"] > 0)

====
